---- MODULE Spec2Model ----
(***************************************************************************)
(* Model of geoschema.py: the Houdini geometry schema exporter.            *)
(*                                                                         *)
(* export_geo_schema walks the four attribute domains of a geometry,       *)
(* converts every attribute to an array or a string list, derives the      *)
(* vertex/primitive topology and writes either a directory tree with one   *)
(* file per attribute or one pickled archive.                              *)
(*                                                                         *)
(* Strings that the code takes apart (file names, on which pathlib's       *)
(* with_suffix works) are sequences of one-character strings; a path is a  *)
(* sequence of such components.                                            *)
(***************************************************************************)
EXTENDS Integers, Sequences, FiniteSets, TLC

\* ------------------------------------------------------------------
\* bounds of the model
\* ------------------------------------------------------------------
MaxPoints == 2      \* points of a geometry
MaxPrims == 2       \* primitives of a geometry
MaxVerts == 3       \* vertices of a geometry, over all its primitives
MaxRleLen == 4      \* length of the sequences given to _rle_encode_int
MaxRleVal == 2      \* values of those sequences are 0..MaxRleVal
MaxCalls == 2       \* calls of export_geo_schema made on one output root

VARIABLES
    geo,          \* the snapshot sop_node.geometry() returns
    fs,           \* files under the output root: path -> content
    dirs,         \* directories created under (and including) the output root
    pc,           \* position of the running call of export_geo_schema
    args,         \* the call's arguments: format, name, frame
    fmt,          \* local fmt (normalised format name)
    frame,        \* local frame (resolved frame number)
    di,           \* index of the domain the outer loop is at (1..4)
    ai,           \* index of the attribute the inner loop is at
    single_obj,   \* local single_obj
    attrib_meta,  \* local attrib_meta
    exported,     \* what _export_attrib_array returned, in call order
    log,          \* the I/O operations of the running call, in order
    ret,          \* the value the call returned (<<>> while none)
    err,          \* the exception the call raised ("" while none)
    ncalls,       \* calls started so far
    last,         \* outcome of the previous finished call (<<>> while none)
    archives,     \* (name, frame, path) of every finished single-archive call
    rle_in,       \* input of the _rle_encode_int under test
    rle_out,      \* its result
    rle_pc        \* whether it has been applied

vars == <<geo, fs, dirs, pc, args, fmt, frame, di, ai, single_obj, attrib_meta,
          exported, log, ret, err, ncalls, last, archives, rle_in, rle_out, rle_pc>>

callvars == <<geo, fs, dirs, pc, args, fmt, frame, di, ai, single_obj,
              attrib_meta, exported, log, ret, err, ncalls, last, archives>>

rlevars == <<rle_in, rle_out, rle_pc>>

\* ------------------------------------------------------------------
\* generic helpers
\* ------------------------------------------------------------------
RECURSIVE SeqsUpTo(_, _)
SeqsUpTo(S, n) ==
    IF n = 0 THEN {<<>>}
    ELSE LET shorter == SeqsUpTo(S, n - 1)
         IN  shorter \cup {Append(s, x) : s \in {t \in shorter : Len(t) = n - 1}, x \in S}

RECURSIVE SumSeq(_)
SumSeq(s) ==
    IF s = <<>> THEN 0 ELSE Head(s) + SumSeq(Tail(s))

\* dict[k] = v on a Python dict modelled as a function
Put(d, k, v) ==
    [x \in (DOMAIN d) \cup {k} |-> IF x = k THEN v ELSE d[x]]

EmptyDict == [x \in {} |-> 0]

\* ------------------------------------------------------------------
\* _rle_encode_int
\* ------------------------------------------------------------------
\* the for loop of lines 67-73 from position i on, then line 74
RECURSIVE RleLoop(_, _, _, _, _)
RleLoop(values, i, current, run, out) ==
    IF i > Len(values)
    THEN out \o <<current, run>>
    ELSE IF values[i] = current
         THEN RleLoop(values, i + 1, current, run + 1, out)
         ELSE RleLoop(values, i + 1, values[i], 1, out \o <<current, run>>)

\* a plausible slip: the last run is not flushed after the loop
RleEncodeNoFlush(values) ==
    IF values = <<>> THEN <<>>
    ELSE LET r == RleLoop(values, 2, values[1], 1, <<>>)
         IN  SubSeq(r, 1, Len(r) - 2)

_rle_encode_int(values) ==
    IF values = <<>> THEN <<>>
    ELSE RleLoop(values, 2, values[1], 1, <<>>)

\* expansion of a flat (value, runLength, value, runLength, ...) sequence
RECURSIVE Repeat(_, _)
Repeat(v, n) ==
    IF n <= 0 THEN <<>> ELSE <<v>> \o Repeat(v, n - 1)

RECURSIVE RleDecode(_)
RleDecode(r) ==
    IF Len(r) < 2 THEN <<>>
    ELSE Repeat(r[1], r[2]) \o RleDecode(SubSeq(r, 3, Len(r)))

\* ------------------------------------------------------------------
\* text and paths
\* ------------------------------------------------------------------
DigitChar == <<"0", "1", "2", "3", "4", "5", "6", "7", "8", "9">>

\* str(n) for an int n
RECURSIVE Digits(_)
Digits(n) ==
    IF n < 10 THEN <<DigitChar[n + 1]>>
    ELSE Digits(n \div 10) \o <<DigitChar[(n % 10) + 1]>>

IntStr(n) ==
    IF n < 0 THEN <<"-">> \o Digits(0 - n) ELSE Digits(n)

\* str(x) for a numpy float32 whose value is the whole number n
FloatStr(n) ==
    IntStr(n) \o <<".", "0">>

\* str.rfind('.') on a file name, 1-based; 0 when there is no dot
RECURSIVE RFindDot(_, _)
RFindDot(name, i) ==
    IF i = 0 THEN 0
    ELSE IF name[i] = "." THEN i ELSE RFindDot(name, i - 1)

\* PurePath.suffix of a file name: from its last dot on, unless that dot is
\* the first or the last character
Suffix(name) ==
    LET i == RFindDot(name, Len(name))
    IN  IF 1 < i /\ i < Len(name) THEN SubSeq(name, i, Len(name)) ELSE <<>>

\* PurePath.with_suffix: the old suffix of the last component is replaced
with_suffix(path, suffix) ==
    LET name == path[Len(path)]
        old  == Suffix(name)
    IN  [path EXCEPT ![Len(path)] =
            SubSeq(name, 1, Len(name) - Len(old)) \o suffix]

\* Path / component
Join(path, component) ==
    Append(path, component)

\* the directories mkdir(parents=True, exist_ok=True) makes sure exist
RECURSIVE Ancestors(_)
Ancestors(path) ==
    IF path = <<>> THEN {}
    ELSE {path} \cup Ancestors(SubSeq(path, 1, Len(path) - 1))

_ensure_dir(ds, p) ==
    ds \cup Ancestors(p)

TxtSuffix == <<".", "t", "x", "t">>
NpySuffix == <<".", "n", "p", "y">>
PklSuffix == <<".", "p", "k", "l">>

OutRoot == << <<"o", "u", "t">> >>

\* f"{name}_F{frame}"
RootName(name, fr) ==
    name \o <<"_", "F">> \o IntStr(fr)

\* ------------------------------------------------------------------
\* the geometry provider (hou.Geometry)
\* ------------------------------------------------------------------
\* A geometry is [npoints, prims, attribs]: prims[k] is the sequence of the
\* point numbers that the vertices of primitive k-1 reference; attribs maps
\* a hou.attribType to the attributes declared on it, in declared order.
\* An attribute is [name, dataType, size].

\* a plausible slip: the primitives walked before the vertices
DomainOrderPrimFirst == <<"Point", "Prim", "Vertex", "Global">>

\* dirs of lines 188-193, in insertion order: the attribute types ...
DomainOrder == <<"Point", "Vertex", "Prim", "Global">>

\* ... and the folder names
FolderName(atype) ==
    CASE atype = "Point"  -> <<"P", "o", "i", "n", "t">>
      [] atype = "Vertex" -> <<"V", "e", "r", "t", "e", "x">>
      [] atype = "Prim"   -> <<"P", "r", "i", "m", "i", "t", "i", "v", "e">>
      [] atype = "Global" -> <<"D", "e", "t", "a", "i", "l">>

_get_attribs(g, atype) ==
    g.attribs[atype]

\* a plausible slip: the vertex list built from the last primitive backwards
RECURSIVE FlattenBackwards(_)
FlattenBackwards(ss) ==
    IF ss = <<>> THEN <<>> ELSE FlattenBackwards(Tail(ss)) \o Head(ss)

\* vertices = [v for p in prims for v in p.vertices()], each vertex given by
\* the number of the point it references
RECURSIVE Flatten(_)
Flatten(ss) ==
    IF ss = <<>> THEN <<>> ELSE Head(ss) \o Flatten(Tail(ss))

Vertices(g) ==
    Flatten(g.prims)

\* the elements of a domain, lines 224-231, as their numbers 0, 1, ...
ElemCount(g, atype) ==
    CASE atype = "Point"  -> g.npoints
      [] atype = "Vertex" -> Len(Vertices(g))
      [] atype = "Prim"   -> Len(g.prims)
      [] atype = "Global" -> 1

Elems(g, atype) ==
    [i \in 1..ElemCount(g, atype) |-> i - 1]

\* e.attribValue(name): a scalar for an attribute of size 1, a tuple of
\* size components otherwise; component c of element e holds 10 * e + c,
\* a string attribute holds the text "s<e>"
AttribValue(e, attrib) ==
    IF attrib.dataType = "String"
    THEN [scalar |-> TRUE, comps |-> << <<"s">> \o IntStr(e) >>]
    ELSE [scalar |-> attrib.size = 1,
          comps  |-> [c \in 1..attrib.size |-> 10 * e + c]]

\* ------------------------------------------------------------------
\* attribute conversion
\* ------------------------------------------------------------------
\* a plausible slip: every type that is not an integer or a string is taken
\* for a float
AttribDtypeLenient(attrib) ==
    CASE attrib.dataType = "Int"    -> "int32"
      [] attrib.dataType = "String" -> "None"
      [] OTHER                      -> "float32"

_attrib_dtype(attrib) ==
    CASE attrib.dataType = "Int"    -> "int32"
      [] attrib.dataType = "Float"  -> "float32"
      [] attrib.dataType = "String" -> "None"
      [] OTHER                      -> "raise"

_attrib_type_str(attrib) ==
    CASE attrib.dataType = "Int"    -> "int"
      [] attrib.dataType = "Float"  -> "float"
      [] attrib.dataType = "String" -> "string"
      [] OTHER                      -> attrib.dataType

\* np.asarray(values, dtype): a list of scalars gives shape (n), a list of
\* equally long tuples shape (n, w), the empty list shape (0)
NpAsArray(values, dtype) ==
    [kind  |-> "array",
     dtype |-> dtype,
     shape |-> IF values = <<>> THEN <<0>>
               ELSE IF values[1].scalar THEN <<Len(values)>>
               ELSE <<Len(values), Len(values[1].comps)>>,
     flat  |-> Flatten([i \in 1..Len(values) |-> values[i].comps])]

\* arr.reshape(n, size); the buffer always holds n * size numbers here
Reshape(arr, n, size) ==
    [arr EXCEPT !.shape = <<n, size>>]

\* a plausible slip: the reshape is skipped when there are no elements
ExportAttribArrayNoReshape(elems, attrib) ==
    IF attrib.dataType = "String"
    THEN [err |-> "", kind |-> "txt",
          data |-> [kind |-> "list",
                    items |-> [i \in 1..Len(elems) |-> AttribValue(elems[i], attrib).comps[1]]]]
    ELSE IF _attrib_dtype(attrib) = "raise"
    THEN [err |-> "Unsupported attrib type", kind |-> "", data |-> <<>>]
    ELSE LET values == [i \in 1..Len(elems) |-> AttribValue(elems[i], attrib)]
             arr    == NpAsArray(values, _attrib_dtype(attrib))
         IN  [err |-> "", kind |-> "array",
              data |-> IF attrib.size > 1 /\ values # <<>>
                       THEN Reshape(arr, Len(values), attrib.size)
                       ELSE arr]

\* the result is [err, kind, data]; err is the message of the exception
\* raised, "" when the function returns (data, kind)
_export_attrib_array(elems, attrib) ==
    IF attrib.dataType = "String"
    THEN [err |-> "", kind |-> "txt",
          data |-> [kind |-> "list",
                    items |-> [i \in 1..Len(elems) |-> AttribValue(elems[i], attrib).comps[1]]]]
    ELSE IF _attrib_dtype(attrib) = "raise"
    THEN [err |-> "Unsupported attrib type", kind |-> "", data |-> <<>>]
    ELSE LET values == [i \in 1..Len(elems) |-> AttribValue(elems[i], attrib)]
             arr    == NpAsArray(values, _attrib_dtype(attrib))
         IN  [err |-> "", kind |-> "array",
              data |-> IF attrib.size > 1
                       THEN Reshape(arr, Len(values), attrib.size)
                       ELSE arr]

\* ------------------------------------------------------------------
\* serializers
\* ------------------------------------------------------------------
\* str(v) of one number of an array
NumStr(dtype, v) ==
    IF dtype = "float32" THEN FloatStr(v) ELSE IntStr(v)

\* the lines _save_ascii writes: one value per line for a rank-1 array, one
\* row per line for a rank-2 array (a line is the sequence of its columns)
AsciiLines(arr) ==
    IF Len(arr.shape) = 1
    THEN [i \in 1..arr.shape[1] |-> <<NumStr(arr.dtype, arr.flat[i])>>]
    ELSE [i \in 1..arr.shape[1] |->
            [c \in 1..arr.shape[2] |->
                NumStr(arr.dtype, arr.flat[(i - 1) * arr.shape[2] + c])]]

\* the result is [err, path, content]: the file written, or the exception
_save_ascii(path, arr) ==
    IF Len(arr.shape) > 2
    THEN [err |-> "ASCII export unsupported ndim", path |-> path, content |-> <<>>]
    ELSE [err |-> "", path |-> path,
          content |-> [enc |-> "txt", lines |-> AsciiLines(arr)]]

\* a plausible slip: whatever is not ascii is pickled
SaveArrayPickleElse(path_base, arr, f) ==
    CASE f = "ascii" ->
            _save_ascii(with_suffix(path_base, TxtSuffix), arr)
      [] OTHER ->
            [err |-> "", path |-> with_suffix(path_base, PklSuffix),
             content |-> [enc |-> "pkl", obj |-> arr]]

_save_array(path_base, arr, f) ==
    CASE f = "ascii" ->
            _save_ascii(with_suffix(path_base, TxtSuffix), arr)
      [] f = "npy" \/ f = "binary" ->
            [err |-> "", path |-> with_suffix(path_base, NpySuffix),
             content |-> [enc |-> "npy", dtype |-> arr.dtype,
                          shape |-> arr.shape, flat |-> arr.flat]]
      [] f = "pickle" ->
            [err |-> "", path |-> with_suffix(path_base, PklSuffix),
             content |-> [enc |-> "pkl", obj |-> arr]]
      [] OTHER ->
            [err |-> "Unsupported format", path |-> path_base, content |-> <<>>]

\* lines 248-250: a string attribute is always written as text
SaveStrings(path_base, data) ==
    [err |-> "", path |-> with_suffix(path_base, TxtSuffix),
     content |-> [enc |-> "txt",
                  lines |-> [i \in 1..Len(data.items) |-> <<data.items[i]>>]]]

\* one entry of the log of a call
WriteOp(step, domain, name, w) ==
    [op |-> "write", step |-> step, domain |-> domain, name |-> name,
     path |-> w.path, content |-> w.content]

MkdirOp(p) ==
    [op |-> "mkdir", path |-> p]

\* the file system after the writes ws, made in order
RECURSIVE ApplyWrites(_, _)
ApplyWrites(fsys, ws) ==
    IF ws = <<>> THEN fsys
    ELSE ApplyWrites(Put(fsys, Head(ws).path, Head(ws).content), Tail(ws))

\* ------------------------------------------------------------------
\* inputs
\* ------------------------------------------------------------------
Attr(name, dataType, size) ==
    [name |-> name, dataType |-> dataType, size |-> size]

NameP           == <<"P">>
NameUv          == <<"u", "v">>
NameId          == <<"i", "d">>
NameTag         == <<"t", "a", "g">>
NameBad         == <<"b", "a", "d">>
NameW           == <<"w">>
NamePointref    == <<"p", "o", "i", "n", "t", "r", "e", "f">>
NameVertexcount == <<"v", "e", "r", "t", "e", "x", "c", "o", "u", "n", "t">>
NameRle         == <<"n", "v", "e", "r", "t", "i", "c", "e", "s", "_", "r", "l", "e">>
NameMetadata    == <<"m", "e", "t", "a", "d", "a", "t", "a">>
NameMetaFile    == NameMetadata \o <<".", "j", "s", "o", "n">>

Table(point, vertex, prim, global) ==
    [Point |-> point, Vertex |-> vertex, Prim |-> prim, Global |-> global]

\* the attribute declarations a geometry is given
AttribTables ==
    { Table(<<Attr(NameP, "Float", 3)>>, <<>>, <<Attr(NameId, "Int", 1)>>, <<>>),
      Table(<<>>, <<Attr(NameUv, "Float", 2), Attr(NameTag, "String", 1)>>,
            <<>>, <<Attr(NameW, "Int", 2)>>),
      Table(<<Attr(NameP, "Float", 3)>>, <<Attr(NamePointref, "Int", 1)>>,
            <<>>, <<>>),
      Table(<<>>, <<Attr(NameVertexcount, "String", 1)>>,
            <<Attr(NameId, "Int", 1)>>, <<>>),
      Table(<<Attr(NameP, "Float", 3), Attr(NameBad, "Dict", 1), Attr(NameW, "Int", 1)>>,
            <<Attr(NameUv, "Float", 2)>>, <<>>, <<>>),
      Table(<<Attr(NameW, "Int", 1)>>, <<>>, <<Attr(NameTag, "String", 1)>>,
            <<Attr(NameBad, "Dict", 1)>>) }

\* the primitive lists of a geometry of np points: at most k primitives
\* with at most t vertices in all, each vertex on any of the points
RECURSIVE Topologies(_, _, _)
Topologies(np, k, t) ==
    IF k = 0 THEN {<<>>}
    ELSE {<<>>} \cup
         UNION { { <<p>> \o rest : rest \in Topologies(np, k - 1, t - Len(p)) } :
                    p \in SeqsUpTo(0..(np - 1), t) }

\* k primitives of v vertices each, vertex j of primitive i on point (i + j) % np
RegularPrims(np, k, v) ==
    [i \in 1..k |-> [j \in 1..v |-> (i + j) % np]]

RegularTopologies(np) ==
    UNION { { RegularPrims(np, k, v) :
                v \in {w \in 0..MaxVerts : k * w <= MaxVerts /\ (np = 0 => w = 0)} } :
            k \in 0..MaxPrims }

NoAttribs == Table(<<>>, <<>>, <<>>, <<>>)

\* every topology, without attributes
BareGeometries ==
    UNION { { [npoints |-> np, prims |-> ps, attribs |-> NoAttribs] :
                ps \in Topologies(np, MaxPrims, MaxVerts) } : np \in 0..MaxPoints }

\* every attribute table, on the regular topologies
AttributedGeometries ==
    UNION { { [npoints |-> np, prims |-> ps, attribs |-> t] :
                ps \in RegularTopologies(np), t \in AttribTables } : np \in 0..MaxPoints }

Geometries ==
    BareGeometries \cup AttributedGeometries

\* the format names export_geo_from_hip.py passes on: lower-cased, alias mapped
CallerFormats == {"ascii", "npy", "pickle", "single", "obj"}

\* format=None
NoneFormat == "<None>"

Formats == {"ascii", "npy", "binary", "Binary", "pickle", "single", "obj", NoneFormat}

\* the caller-supplied names
Names == {<<"a">>, <<"a", ".", "b">>, <<".", "a">>}

\* frame=None is <<>>, frame=n is <<n>>
NoFrame == <<>>

Frames == {NoFrame, <<2>>, <<12>>}

\* int(hou.frame()), the frame of the session
hou_frame == 1

\* ------------------------------------------------------------------
\* export_geo_schema
\* ------------------------------------------------------------------
\* str(format).lower() on the format names used
Lower(s) ==
    CASE s = "Binary" -> "binary"
      [] OTHER        -> s

\* a plausible slip: the legacy alias is not mapped
NormalizeNoAlias(format) ==
    IF format = NoneFormat THEN "npy" ELSE Lower(format)

\* lines 173-175
Normalize(format) ==
    LET f == IF format = NoneFormat THEN "npy" ELSE Lower(format)
    IN  IF f = "binary" THEN "npy" ELSE f

\* a plausible slip: the check lets a name through that _save_array rejects
SupportedFormatsWide == {"ascii", "npy", "pickle", "single", "obj"}

\* line 176
SupportedFormats == {"ascii", "npy", "pickle", "single"}

single == fmt = "single"

\* root = out_root / f"{name}_F{frame}"
RootOf(name, fr) ==
    Join(OutRoot, RootName(name, fr))

root == RootOf(args.name, frame)

DomainDir(r, atype) ==
    Join(r, FolderName(atype))

EmptyDomains ==
    [d \in {FolderName(DomainOrder[i]) : i \in 1..4} |-> EmptyDict]

\* the directories lines 195-199 create, in order
LayoutDirs(r, isSingle) ==
    IF isSingle THEN <<OutRoot>>
    ELSE [i \in 1..4 |-> DomainDir(r, DomainOrder[i])]

RECURSIVE EnsureDirs(_, _)
EnsureDirs(ds, ps) ==
    IF ps = <<>> THEN ds ELSE EnsureDirs(_ensure_dir(ds, Head(ps)), Tail(ps))

\* what a finished call leaves for the next one to be compared with
Outcome ==
    [args |-> args, log |-> log, ret |-> ret, err |-> err]

\* lines 170-219: arguments, format check, directory layout, locals
Call(formats, names, frames, limit) ==
    /\ pc \in {"idle", "done", "failed"}
    /\ ncalls < limit
    /\ \E format \in formats, name \in names, fr \in frames :
        LET f   == Normalize(format)
            frm == IF fr = NoFrame THEN hou_frame ELSE fr[1]
            ds  == LayoutDirs(RootOf(name, frm), f = "single")
        IN  /\ args' = [format |-> format, name |-> name, frame |-> fr]
            /\ frame' = frm
            /\ fmt' = f
            /\ IF f \notin SupportedFormats
               THEN /\ pc' = "failed"
                    /\ err' = "Unsupported format"
                    /\ log' = <<>>
                    /\ UNCHANGED <<fs, dirs>>
               ELSE /\ pc' = "attribs"
                    /\ err' = ""
                    /\ dirs' = EnsureDirs(dirs, ds)
                    /\ log' = [i \in 1..Len(ds) |-> MkdirOp(ds[i])]
                    /\ UNCHANGED fs
    /\ ncalls' = ncalls + 1
    /\ last' = IF pc = "idle" THEN {} ELSE {Outcome}
    /\ di' = 1
    /\ ai' = 1
    /\ single_obj' = EmptyDomains
    /\ attrib_meta' = EmptyDomains
    /\ exported' = <<>>
    /\ ret' = <<>>
    /\ UNCHANGED <<geo, archives, rlevars>>

\* lines 235-255: one iteration of the loop over the attributes of a domain
ExportAttrib ==
    /\ pc = "attribs"
    /\ ai <= Len(_get_attribs(geo, DomainOrder[di]))
    /\ LET atype       == DomainOrder[di]
           folder      == DomainDir(root, atype)
           attrib      == _get_attribs(geo, atype)[ai]
           name_attr   == attrib.name
           r           == _export_attrib_array(Elems(geo, atype), attrib)
           folder_name == folder[Len(folder)]
           path_base   == Join(folder, name_attr)
           w           == IF r.kind = "array"
                          THEN _save_array(path_base, r.data, fmt)
                          ELSE SaveStrings(path_base, r.data)
       IN  IF r.err # ""
           THEN /\ pc' = "failed"
                /\ err' = r.err
                /\ UNCHANGED <<fs, log, single_obj, attrib_meta, exported, ai>>
           ELSE /\ single_obj' = [single_obj EXCEPT
                                    ![folder_name] = Put(@, name_attr, r.data)]
                /\ exported' = Append(exported,
                                      [atype |-> atype, attrib |-> attrib, data |-> r.data])
                /\ IF single
                   THEN /\ UNCHANGED <<fs, log, pc, err>>
                        /\ attrib_meta' = [attrib_meta EXCEPT ![folder_name] =
                               Put(@, name_attr, [type |-> _attrib_type_str(attrib),
                                                  size |-> attrib.size])]
                        /\ ai' = ai + 1
                   ELSE IF w.err # ""
                   THEN /\ pc' = "failed"
                        /\ err' = w.err
                        /\ UNCHANGED <<fs, log, attrib_meta, ai>>
                   ELSE /\ fs' = Put(fs, w.path, w.content)
                        /\ log' = Append(log, WriteOp("attrib", atype, name_attr, w))
                        /\ attrib_meta' = [attrib_meta EXCEPT ![folder_name] =
                               Put(@, name_attr, [type |-> _attrib_type_str(attrib),
                                                  size |-> attrib.size])]
                        /\ ai' = ai + 1
                        /\ UNCHANGED <<pc, err>>
    /\ UNCHANGED <<geo, dirs, args, fmt, frame, di, ret, ncalls, last, archives, rlevars>>

\* line 221 and line 235: the loops move on to the next domain, or end
NextDomain ==
    /\ pc = "attribs"
    /\ ai > Len(_get_attribs(geo, DomainOrder[di]))
    /\ IF di < 4
       THEN /\ di' = di + 1
            /\ ai' = 1
            /\ pc' = pc
       ELSE /\ pc' = "topology"
            /\ UNCHANGED <<di, ai>>
    /\ UNCHANGED <<geo, fs, dirs, args, fmt, frame, single_obj, attrib_meta,
                   exported, log, ret, err, ncalls, last, archives, rlevars>>

\* an int32 array of a list of ints
IntArray(ints) ==
    NpAsArray([i \in 1..Len(ints) |-> [scalar |-> TRUE, comps |-> <<ints[i]>>]], "int32")

\* line 266
PrimVertexCounts(g) ==
    [k \in 1..Len(g.prims) |-> Len(g.prims[k])]

\* lines 261-269: the three topology arrays, in the order they are written
TopologyArrays(g) ==
    << [name |-> NamePointref,    arr |-> IntArray(Vertices(g))],
       [name |-> NameVertexcount, arr |-> IntArray(PrimVertexCounts(g))],
       [name |-> NameRle,         arr |-> IntArray(_rle_encode_int(PrimVertexCounts(g)))] >>

\* lines 261-277
Topology ==
    /\ pc = "topology"
    /\ LET topo == TopologyArrays(geo)
           vdir == DomainDir(root, "Vertex")
           vkey == FolderName("Vertex")
           ws   == [i \in 1..3 |-> _save_array(Join(vdir, topo[i].name), topo[i].arr, fmt)]
       IN  /\ single_obj' = [single_obj EXCEPT ![vkey] =
                   Put(Put(Put(@, topo[1].name, topo[1].arr),
                           topo[2].name, topo[2].arr),
                       topo[3].name, topo[3].arr)]
           /\ IF single
              THEN /\ pc' = "metadata"
                   /\ UNCHANGED <<fs, log, err>>
              ELSE IF \E i \in 1..3 : ws[i].err # ""
              THEN /\ pc' = "failed"
                   /\ err' = ws[CHOOSE i \in 1..3 : ws[i].err # ""].err
                   /\ UNCHANGED <<fs, log>>
              ELSE /\ pc' = "metadata"
                   /\ fs' = ApplyWrites(fs, ws)
                   /\ log' = log \o [i \in 1..3 |->
                                        WriteOp("topology", "Vertex", topo[i].name, ws[i])]
                   /\ UNCHANGED err
    /\ UNCHANGED <<geo, dirs, args, fmt, frame, di, ai, attrib_meta, exported,
                   ret, ncalls, last, archives, rlevars>>

\* lines 285-299
Meta ==
    [name            |-> args.name,
     frame           |-> frame,
     node            |-> "sop_node.path()",
     hipFile         |-> "hou.hipFile.path()",
     houdini_version |-> "hou.applicationVersionString()",
     storage         |-> [format |-> fmt],
     counts          |-> [points |-> geo.npoints, primitives |-> Len(geo.prims)],
     attributes      |-> attrib_meta]

\* lines 282-314: the manifest, then the archive or the metadata file
Metadata ==
    /\ pc = "metadata"
    /\ LET obj      == Put(single_obj, NameMetadata, Meta)
           out_path == with_suffix(root, PklSuffix)
           archive  == [err |-> "", path |-> out_path,
                        content |-> [enc |-> "pkl", obj |-> obj]]
           sidecar  == [err |-> "", path |-> Join(root, NameMetaFile),
                        content |-> [enc |-> "json", obj |-> Meta]]
       IN  /\ single_obj' = obj
           /\ IF single
              THEN /\ fs' = Put(fs, out_path, archive.content)
                   /\ log' = Append(log, WriteOp("archive", "", <<>>, archive))
                   /\ ret' = out_path
                   /\ archives' = archives \cup
                         {[name |-> args.name, frame |-> frame, path |-> out_path]}
              ELSE /\ fs' = Put(fs, sidecar.path, sidecar.content)
                   /\ log' = Append(log, WriteOp("metadata", "", <<>>, sidecar))
                   /\ ret' = root
                   /\ UNCHANGED archives
    /\ pc' = "done"
    /\ UNCHANGED <<geo, dirs, args, fmt, frame, di, ai, attrib_meta, exported,
                   err, ncalls, last, rlevars>>

\* ------------------------------------------------------------------
\* _rle_encode_int on its own
\* ------------------------------------------------------------------
RleInputs ==
    SeqsUpTo(0..MaxRleVal, MaxRleLen)

RleApply ==
    /\ rle_pc = "input"
    /\ rle_out' = _rle_encode_int(rle_in)
    /\ rle_pc' = "encoded"
    /\ UNCHANGED <<rle_in, callvars>>

\* ------------------------------------------------------------------
\* specifications
\* ------------------------------------------------------------------
InitCall(geometries) ==
    /\ geo \in geometries
    /\ fs = EmptyDict
    /\ dirs = {}
    /\ pc = "idle"
    /\ args = [format |-> NoneFormat, name |-> <<"a">>, frame |-> NoFrame]
    /\ fmt = ""
    /\ frame = 0
    /\ di = 1
    /\ ai = 1
    /\ single_obj = EmptyDomains
    /\ attrib_meta = EmptyDomains
    /\ exported = <<>>
    /\ log = <<>>
    /\ ret = <<>>
    /\ err = ""
    /\ ncalls = 0
    /\ last = {}
    /\ archives = {}

InitRleIdle ==
    /\ rle_in = <<>>
    /\ rle_out = <<>>
    /\ rle_pc = "idle"

\* one process, one call: export_geo_from_hip.py
Init ==
    /\ InitCall(Geometries)
    /\ InitRleIdle

Next ==
    \/ Call(CallerFormats, {<<"a">>}, {NoFrame, <<2>>}, 1)
    \/ ExportAttrib
    \/ NextDomain
    \/ Topology
    \/ Metadata

Spec == Init /\ [][Next]_vars

\* the dense-binary format under its two names, called one after the other
NextAlias ==
    \/ Call({"binary", "npy"}, {<<"a">>}, {NoFrame, <<2>>}, MaxCalls)
    \/ ExportAttrib
    \/ NextDomain
    \/ Topology
    \/ Metadata

InitAlias ==
    /\ InitCall(AttributedGeometries)
    /\ InitRleIdle

SpecAlias == InitAlias /\ [][NextAlias]_vars

\* single-archive exports under several names and frames
ArchiveGeometries ==
    {g \in AttributedGeometries : g.prims = <<>>}

InitArchive ==
    /\ InitCall(ArchiveGeometries)
    /\ InitRleIdle

NextArchive ==
    \/ Call({"single"}, Names, Frames, MaxCalls)
    \/ ExportAttrib
    \/ NextDomain
    \/ Topology
    \/ Metadata

SpecArchive == InitArchive /\ [][NextArchive]_vars

\* calls with every format name, one after the other on one output root
NextRepeat ==
    \/ Call(Formats, {<<"a">>}, {NoFrame}, MaxCalls)
    \/ ExportAttrib
    \/ NextDomain
    \/ Topology
    \/ Metadata

SpecRepeat == InitArchive /\ [][NextRepeat]_vars

\* _rle_encode_int applied to every input
InitRle ==
    /\ InitCall({[npoints |-> 0, prims |-> <<>>, attribs |-> NoAttribs]})
    /\ rle_in \in RleInputs
    /\ rle_out = <<>>
    /\ rle_pc = "input"

NextRle ==
    RleApply

SpecRle == InitRle /\ [][NextRle]_vars

\* ------------------------------------------------------------------
\* properties
\* ------------------------------------------------------------------
\* the write operations of a log
Writes(l) ==
    SelectSeq(l, LAMBDA o : o.op = "write")

\* the format names the specification recognises, lower-cased and alias mapped
RecognisedFormats == {"ascii", "npy", "pickle", "single"}

LowerCased(format) ==
    IF format = "Binary" THEN "binary" ELSE format

Canonical(format) ==
    IF format = NoneFormat THEN "npy"
    ELSE IF LowerCased(format) = "binary" THEN "npy" ELSE LowerCased(format)

\* C1: a call whose format name, lower-cased and alias mapped, is not a
\* recognised format fails with the unsupported-format error and does no
\* I/O: it creates no directory and writes or changes no file.
C1_UnsupportedFormatBeforeIO ==
    [][(ncalls' # ncalls /\ Canonical(args'.format) \notin RecognisedFormats)
        => /\ pc' = "failed"
           /\ err' = "Unsupported format"
           /\ log' = <<>>
           /\ fs' = fs
           /\ dirs' = dirs]_vars

\* an unsupported format name was given after an export had written files
C1_Witness ==
    /\ pc = "failed"
    /\ err = "Unsupported format"
    /\ args.format = "obj"
    /\ fs # EmptyDict
    /\ log = <<>>

\* the run lengths of a flat (value, runLength, ...) sequence
RunLengths(r) ==
    [i \in 1..(Len(r) \div 2) |-> r[2 * i]]

\* C2: _rle_encode_int(s) is a flat sequence of (value, runLength) pairs,
\* every runLength is at least 1, the runLengths sum to the length of s and
\* expanding the pairs in order gives back exactly s.
C2_RleRoundTrip ==
    rle_pc = "encoded" =>
        /\ Len(rle_out) % 2 = 0
        /\ \A i \in 1..Len(RunLengths(rle_out)) : RunLengths(rle_out)[i] >= 1
        /\ SumSeq(RunLengths(rle_out)) = Len(rle_in)
        /\ RleDecode(rle_out) = rle_in
        /\ (rle_in = <<>> => rle_out = <<>>)

\* an input with a run of two followed by another value has been encoded
C2_Witness ==
    /\ rle_pc = "encoded"
    /\ Len(rle_in) = 3
    /\ rle_in[1] = rle_in[2]
    /\ rle_in[2] # rle_in[3]
    /\ Len(rle_out) = 4

\* C7: an export with format "binary" has the same outcome as the export of
\* the same geometry, name and frame with format "npy": the same operations
\* with the same paths, encodings and contents (the manifest with its
\* storage.format among them), the same error and the same returned path.
C7_AliasEquivalence ==
    pc \in {"done", "failed"} =>
        \A l \in last :
            (/\ {l.args.format, args.format} = {"binary", "npy"}
             /\ l.args.name = args.name
             /\ l.args.frame = args.frame)
            => /\ l.err = err
               /\ l.ret = ret
               /\ Len(l.log) = Len(log)
               /\ l.log = log

\* an export with "binary" has finished after one with "npy" and wrote files
C7_Witness ==
    /\ pc = "done"
    /\ args.format = "binary"
    /\ \E l \in last : l.args.format = "npy" /\ l.err = ""
    /\ Len(Writes(log)) > 4

\* the attributes a geometry declares, domain by domain in the order Point,
\* Vertex, Primitive, Detail, and in declared order within a domain
DomainAttribs(g, atype) ==
    [j \in 1..Len(g.attribs[atype]) |-> [atype |-> atype, attrib |-> g.attribs[atype][j]]]

DeclaredAttribs(g) ==
    DomainAttribs(g, "Point") \o DomainAttribs(g, "Vertex")
        \o DomainAttribs(g, "Prim") \o DomainAttribs(g, "Global")

SupportedTypes == {"Int", "Float", "String"}

\* position of the first attribute of an unsupported type, or one past the end
FirstUnsupported(g) ==
    LET all == DeclaredAttribs(g)
        bad == {i \in 1..Len(all) : all[i].attrib.dataType \notin SupportedTypes}
    IN  IF bad = {} THEN Len(all) + 1
        ELSE CHOOSE i \in bad : \A j \in bad : i <= j

PerFile ==
    pc # "idle" /\ fmt \in {"ascii", "npy", "pickle"}

\* C3: a per-file export that meets an attribute of a type outside Integer,
\* Float and String fails there with the unsupported-attribute-type error:
\* the files of the earlier attributes are in place with what was written,
\* and no file was written for that attribute, a later one, the topology or
\* the metadata; an export never gets past such an attribute.
C3_UnsupportedAttribKeepsEarlierFiles ==
    PerFile =>
        LET all == DeclaredAttribs(geo)
            fb  == FirstUnsupported(geo)
            ws  == Writes(log)
        IN  /\ Len(exported) < fb
            /\ pc \in {"topology", "metadata", "done"} => fb = Len(all) + 1
            /\ pc = "failed" => (fb <= Len(all) /\ Len(exported) = fb - 1)
            /\ pc = "failed" =>
                /\ err = "Unsupported attrib type"
                /\ ret = <<>>
                /\ Len(ws) = fb - 1
                /\ \A i \in 1..Len(ws) :
                    /\ ws[i].step = "attrib"
                    /\ ws[i].domain = all[i].atype
                    /\ ws[i].name = all[i].attrib.name
                    /\ ws[i].path \in DOMAIN fs
                    /\ fs[ws[i].path].enc = ws[i].content.enc
                    /\ fs[ws[i].path] = ws[i].content
                /\ DOMAIN fs = {ws[i].path : i \in 1..Len(ws)}

\* an export failed at the third attribute, after two files were written
C3_Witness ==
    /\ PerFile
    /\ pc = "failed"
    /\ err = "Unsupported attrib type"
    /\ Len(Writes(log)) = 2
    /\ Cardinality(DOMAIN fs) = 2

\* equality of two exported values, of two file contents
SameData(x, y) ==
    x.kind = y.kind /\ x = y

SameContent(x, y) ==
    /\ x.enc = y.enc
    /\ (x.enc = "pkl" => x.obj.kind = y.obj.kind)
    /\ x = y

VertexKey == <<"V", "e", "r", "t", "e", "x">>

PseudoNames == {NamePointref, NameVertexcount, NameRle}

\* C4: after a successful export the Vertex domain of the output holds the
\* three topology pseudo-attributes and, besides them, the exported values
\* of every real Vertex attribute, whatever the attributes are named.
C4_RealVertexAttribsKept ==
    pc = "done" =>
        IF single
        THEN LET vertex == fs[ret].obj[VertexKey]
             IN  /\ PseudoNames \subseteq DOMAIN vertex
                 /\ \A i \in 1..Len(exported) :
                        exported[i].atype = "Vertex" =>
                            /\ exported[i].attrib.name \in DOMAIN vertex
                            /\ SameData(vertex[exported[i].attrib.name], exported[i].data)
        ELSE LET ws == Writes(log)
             IN  /\ Cardinality({i \in 1..Len(ws) : ws[i].step = "topology"}) = 3
                 /\ \A i \in 1..Len(ws) :
                        (ws[i].domain = "Vertex" /\ ws[i].step \in {"attrib", "topology"}) =>
                            /\ ws[i].path \in DOMAIN fs
                            /\ SameContent(fs[ws[i].path], ws[i].content)

\* C5: a single-archive export writes and returns <out_root>/<name>_F<frame>
\* with the archive extension appended, so exports with different (name,
\* frame) pairs never give the same archive path.
C5_ArchivePathAppendsExtension ==
    /\ \A a \in archives :
        a.path = Join(OutRoot, RootName(a.name, a.frame) \o PklSuffix)
    /\ \A a, b \in archives :
        a.path = b.path => (a.name = b.name /\ a.frame = b.frame)
    /\ (pc = "done" /\ single) =>
        /\ ret = Join(OutRoot, RootName(args.name, frame) \o PklSuffix)
        /\ ret \in DOMAIN fs

\* C6 as stated: no attribute or topology array is ever written as its own
\* pickled file; every per-attribute file is ascii or binary-dense.
C6_NoPickledAttributeFile ==
    \A i \in 1..Len(log) :
        (log[i].op = "write" /\ log[i].step \in {"attrib", "topology"})
            => log[i].content.enc \in {"txt", "npy"}

\* C6, amended: attribute and topology files exist only in the per-file
\* layout; such a file is pickled exactly when the format is "pickle" and it
\* holds a numeric array; with "ascii" every such file is text, with "npy"
\* numeric arrays are binary-dense and string attributes text.
C6_PickleOnlyWhenChosen ==
    \A i \in 1..Len(log) :
        (log[i].op = "write" /\ log[i].step \in {"attrib", "topology"}) =>
            LET isString ==
                    /\ log[i].step = "attrib"
                    /\ \E a \in {DeclaredAttribs(geo)[k] : k \in 1..Len(DeclaredAttribs(geo))} :
                          /\ a.atype = log[i].domain
                          /\ a.attrib.name = log[i].name
                          /\ a.attrib.dataType = "String"
            IN  /\ ~single
                /\ log[i].content.enc =
                       (IF isString \/ fmt = "ascii" THEN "txt"
                        ELSE IF fmt = "pickle" THEN "pkl" ELSE "npy")
                /\ Suffix(log[i].path[Len(log[i].path)]) =
                       (IF isString \/ fmt = "ascii" THEN TxtSuffix
                        ELSE IF fmt = "pickle" THEN PklSuffix ELSE NpySuffix)

\* a per-file export with format "npy" wrote a numeric and a string attribute
C6_Witness ==
    /\ pc = "done"
    /\ fmt = "npy"
    /\ \E i, j \in 1..Len(log) :
        /\ log[i].op = "write" /\ log[i].step = "attrib" /\ log[i].content.enc = "npy"
        /\ log[j].op = "write" /\ log[j].step = "attrib" /\ log[j].content.enc = "txt"

\* number of vertices of the primitives before primitive k
RECURSIVE VertexOffset(_, _)
VertexOffset(g, k) ==
    IF k <= 1 THEN 0 ELSE VertexOffset(g, k - 1) + Len(g.prims[k - 1])

\* C8: the exported pointref array is as long as the sum of the exported
\* vertexcount array, vertexcount holds the vertex count of each primitive
\* in primitive order and pointref the point numbers of the vertices taken
\* primitive by primitive, in each primitive's vertex order; with no
\* primitive both are empty.
C8_PointrefMatchesVertexcount ==
    pc \in {"metadata", "done"} =>
        LET pointref    == single_obj[VertexKey][NamePointref]
            vertexcount == single_obj[VertexKey][NameVertexcount]
        IN  /\ pointref.shape = <<Len(pointref.flat)>>
            /\ vertexcount.shape = <<Len(vertexcount.flat)>>
            /\ Len(pointref.flat) = SumSeq(vertexcount.flat)
            /\ Len(vertexcount.flat) = Len(geo.prims)
            /\ \A k \in 1..Len(geo.prims) :
                /\ vertexcount.flat[k] = Len(geo.prims[k])
                /\ \A j \in 1..Len(geo.prims[k]) :
                    pointref.flat[VertexOffset(geo, k) + j] = geo.prims[k][j]
            /\ geo.prims = <<>> => (pointref.flat = <<>> /\ vertexcount.flat = <<>>)
            /\ (pc = "done" /\ fmt = "npy") =>
                /\ fs[Join(DomainDir(ret, "Vertex"), NamePointref \o NpySuffix)].flat
                       = pointref.flat
                /\ fs[Join(DomainDir(ret, "Vertex"), NameVertexcount \o NpySuffix)].flat
                       = vertexcount.flat

\* two primitives on different points, the first with more vertices
C8_Witness ==
    /\ pc = "done"
    /\ Len(geo.prims) = 2
    /\ Len(geo.prims[1]) = 2
    /\ Len(geo.prims[2]) = 1
    /\ geo.prims[1][1] # geo.prims[2][1]
    /\ single_obj[VertexKey][NamePointref].flat = <<1, 0, 0>>

\* the number of elements of a domain
LiveCount(g, atype) ==
    CASE atype = "Point"  -> g.npoints
      [] atype = "Vertex" -> SumSeq([k \in 1..Len(g.prims) |-> Len(g.prims[k])])
      [] atype = "Prim"   -> Len(g.prims)
      [] atype = "Global" -> 1

\* C9: the value exported for an attribute has as first dimension the number
\* n of elements of its domain: shape (n, w) for a numeric attribute of
\* width w > 1, shape (n) for width 1, a sequence of length n for a string
\* attribute; also for n = 0, and every supported attribute gets a value.
C9_FirstDimensionIsElementCount ==
    /\ \A i \in 1..Len(exported) :
        LET e == exported[i]
            n == LiveCount(geo, e.atype)
        IN  /\ e.atype = DeclaredAttribs(geo)[i].atype
            /\ e.attrib = DeclaredAttribs(geo)[i].attrib
            /\ IF e.attrib.dataType = "String"
               THEN /\ e.data.kind = "list"
                    /\ Len(e.data.items) = n
               ELSE /\ e.data.kind = "array"
                    /\ e.data.shape = (IF e.attrib.size > 1
                                       THEN <<n, e.attrib.size>> ELSE <<n>>)
                    /\ Len(e.data.flat) = n * e.attrib.size
    /\ pc \in {"topology", "metadata", "done"} =>
        Len(exported) = Len(DeclaredAttribs(geo))

\* an attribute of width 3 was exported from a geometry without points
C9_Witness ==
    /\ pc = "done"
    /\ geo.npoints = 0
    /\ \E i \in 1..Len(exported) :
        /\ exported[i].atype = "Point"
        /\ exported[i].attrib.size = 3
        /\ exported[i].data.shape = <<0, 3>>

\* the operations of a complete per-file export, as (kind, domain, name):
\* the four directories, the attribute files, the topology files, the
\* metadata file
ExpectedOps(g) ==
    LET all == DeclaredAttribs(g)
    IN  << <<"mkdir", "Point", <<>> >>, <<"mkdir", "Vertex", <<>> >>,
           <<"mkdir", "Prim", <<>> >>, <<"mkdir", "Global", <<>> >> >>
        \o [i \in 1..Len(all) |-> <<"attrib", all[i].atype, all[i].attrib.name>>]
        \o << <<"topology", "Vertex", NamePointref>>,
              <<"topology", "Vertex", NameVertexcount>>,
              <<"topology", "Vertex", NameRle>> >>
        \o << <<"metadata", "", <<>> >> >>

\* what an operation of the log is, as (kind, domain, name)
OpKey(o, r) ==
    IF o.op = "mkdir"
    THEN <<"mkdir",
           CHOOSE t \in {"Point", "Vertex", "Prim", "Global"} :
               o.path = Join(r, CASE t = "Point"  -> <<"P", "o", "i", "n", "t">>
                                  [] t = "Vertex" -> VertexKey
                                  [] t = "Prim"   -> <<"P", "r", "i", "m", "i", "t", "i", "v", "e">>
                                  [] t = "Global" -> <<"D", "e", "t", "a", "i", "l">>),
           <<>> >>
    ELSE <<o.step, o.domain, o.name>>

\* C10: the operations of a per-file export happen in the fixed order:
\* format check and the four directories, the attribute files of Point,
\* Vertex, Primitive, Detail in declared order, the three topology files,
\* the metadata file, the return of the root path; nothing happens after a
\* failure, so the metadata file is written only after every attribute file
\* and the three topology files.
C10_FixedStepOrder ==
    PerFile =>
        LET expected == ExpectedOps(geo)
            nattr    == Len(DeclaredAttribs(geo))
            r        == Join(OutRoot, RootName(args.name, frame))
        IN  /\ Len(log) <= Len(expected)
            /\ \A i \in 1..Len(log) : OpKey(log[i], r) = expected[i]
            /\ pc = "attribs" => (Len(log) = 4 + Len(exported) /\ Len(exported) <= nattr)
            /\ pc = "topology" => Len(log) = 4 + nattr
            /\ pc = "metadata" => Len(log) = 4 + nattr + 3
            /\ pc = "done" => (Len(log) = 4 + nattr + 4 /\ ret = r /\ err = "")
            /\ pc = "failed" => (Len(log) = 4 + Len(exported) /\ Len(exported) < nattr
                                 /\ ret = <<>> /\ err # "")
            /\ ret # <<>> => pc = "done"

\* a per-file export of attributes in three domains has finished
C10_Witness ==
    /\ PerFile
    /\ pc = "done"
    /\ Len(exported) = 3
    /\ exported[1].atype = "Vertex"
    /\ exported[3].atype = "Global"
    /\ Len(log) = 11

====
